---------------------------- MODULE Spec2Model ----------------------------
(***************************************************************************)
(* State-machine model of static/script.js, the browser-side controller   *)
(* of PROJECT-VICTUS: the session token kept in localStorage, the chat    *)
(* transcript, the loading indicator shared by the four network           *)
(* operations (chat, transcribe, synthesize, upload) and the microphone   *)
(* recorder.                                                               *)
(*                                                                         *)
(* JavaScript runs one handler at a time and a handler only yields at an  *)
(* await, so every action below is the code that runs between two awaits  *)
(* of one handler: from the event that starts it to its first await, or   *)
(* from the settling of the awaited promise to the next await or return.  *)
(***************************************************************************)
EXTENDS Integers, Sequences, FiniteSets, TLC

(***************************************************************************)
(* Bounds of the model.                                                    *)
(***************************************************************************)
\* gestures of the user that start something: a submit of text, a speaker
\* click, a file pick, a microphone click that starts a recording, a reload of
\* the page
MaxGestures == 2

(***************************************************************************)
(* Text.  A string is a sequence of atoms; the atom SP is one whitespace  *)
(* character and every other atom is a run of non-whitespace text.        *)
(***************************************************************************)
SP == " "
Empty == << >>

RECURSIVE TrimStart(_)
TrimStart(s) ==
    IF s # Empty /\ Head(s) = SP THEN TrimStart(Tail(s)) ELSE s

RECURSIVE TrimEnd(_)
TrimEnd(s) ==
    IF s # Empty /\ s[Len(s)] = SP THEN TrimEnd(SubSeq(s, 1, Len(s) - 1)) ELSE s

Trim(s) == TrimEnd(TrimStart(s))

\* a || b on strings: the empty string (and an absent field) is falsy
OrElse(a, b) == IF a # Empty THEN a ELSE b

Hello == <<"Hello">>
Hi == <<"Hi!">>
Boom == <<"boom">>
Blank == <<SP>>
PaddedHello == <<SP, "Hello", SP>>

\* what the user can leave in the message field
TypedTexts == {Blank, Hello}
\* data.response of a successful chat
ChatResponses == {Hi}
\* errorData.detail of a failed chat or upload (Empty: no detail given)
Details == {Boom, Empty}
\* data.transcription of a successful transcribe
Transcriptions == {PaddedHello, Blank}
\* names of the files the user can pick
Files == {<<"a.pdf">>}
NoFile == Empty
\* error.message of a rejected fetch
NetworkErrors == {<<"Failed to fetch">>}
\* error.message of a body that is not JSON
JsonErrors == {<<"Unexpected token < in JSON at position 0">>}
AudioUrls == {<<"/audio/1.wav">>}

Greeting == <<"Hello! I'm VICTUS, your personal AI assistant. How can I help you today?">>
GenericChatError == <<"An error occurred">>
GenericUploadError == <<"Upload failed">>
TranscribeErrorText == <<"Error transcribing audio.">>
NoSupportAlert == <<"Your browser does not support audio recording.">>
NoMicAlert == <<"Could not access microphone. Please grant permission.">>
NoAudioAlert == <<"Could not play audio.">>
NoAlert == Empty

\* `Error: ${error.message}`
ErrorText(m) == <<"Error:", SP>> \o m
UploadedText(name) ==
    <<"Successfully uploaded and indexed \"">> \o name
        \o <<"\". You can now ask questions about it.">>

\* localStorage.getItem returns null
NoToken == 0

VARIABLES
    storage,        \* localStorage['victus_session_id'] (NoToken: absent)
    sessionId,      \* let sessionId
    isNewSession,   \* let isNewSession
    loads,          \* history: page loads so far
    firstToken,     \* history: the token the first load created
    gestures,       \* history: gestures so far that started something
    input,          \* messageInput.value
    transcript,     \* children of chatWindow, in document order
    busy,           \* loadingIndicator.style.display = 'flex'
    fileSel,        \* fileUpload.value (NoFile: nothing selected)
    alert,          \* text of the alert() raised by the last step, or NoAlert
    playing,        \* Audio elements that speakText started and that still play
    ops,            \* the network operations of this page load, in issue order
    settled,        \* history: ids of the operations in the order they settled
    mediaSupport,   \* navigator.mediaDevices.getUserMedia exists
    pendingPerm,    \* getUserMedia calls not yet settled
    recorders,      \* MediaRecorder objects created, in creation order
    mediaRecorder,  \* let mediaRecorder (0: undefined)
    audioChunks,    \* let audioChunks
    isRecording,    \* let isRecording
    listening,      \* the load handler ran to its end: the listeners are registered
    storeFault      \* history: the localStorage call that threw during this load

sessVars == <<storage, sessionId, isNewSession, loads, firstToken, listening, storeFault>>
uiVars == <<input, transcript, busy, fileSel>>
netVars == <<ops, settled>>
recVars == <<mediaSupport, pendingPerm, recorders, mediaRecorder, audioChunks, isRecording>>
vars == <<sessVars, gestures, uiVars, netVars, recVars, alert, playing>>


(***************************************************************************)
(* Messages and operations.                                                *)
(***************************************************************************)
\* one child of chatWindow, as addMessageToChat builds it; op is history:
\* the id of the operation the message belongs to (0: the startup greeting)
Message(text, sender, op) == [sender |-> sender, text |-> text, op |-> op]

\* mutant of addMessageToChat: the new child is put first
addMessageToChat_Prepend(tr, text, sender, op) == <<Message(text, sender, op)>> \o tr

addMessageToChat(tr, text, sender, op) == Append(tr, Message(text, sender, op))

\* One network operation: an async task suspended at its fetch.  Between the
\* settling of fetch and of response.json() a task touches nothing but its
\* own locals, so the two awaits are one step here.  kind: which of the four;
\* pc: "pending" until the task has returned, then "done"; body: what was
\* sent; session: the session_id sent (chat only).  History fields: out, how
\* it ended ("success"; "status", a non-success status; "error", a rejected
\* fetch or an unreadable body; "failed", any failure of a transcribe or
\* synthesize); data, the text the service or the error gave; from, the
\* transcribe operation whose success dispatched this submit (0: a user
\* gesture); upos, where the user message of a chat was appended.
NewOp(kind, body, session, from, upos) ==
    [kind |-> kind, pc |-> "pending", body |-> body, session |-> session,
     out |-> "pending", data |-> Empty, from |-> from, upos |-> upos]

\* operation i ends: its task has run to its return
Finish(os, i, out, data) ==
    [os EXCEPT ![i].pc = "done", ![i].out = out, ![i].data = data]

OpIds == 1..Len(ops)
InFlight(i) == ops[i].pc = "pending"
AllSettled == \A i \in OpIds : ~InFlight(i)

Awaiting(i, kind) ==
    /\ i \in OpIds
    /\ ops[i].kind = kind
    /\ InFlight(i)

\* the user may still start something
Room == gestures < MaxGestures

\* recorders a page may have created when stopRecording is studied on its own
MaxRecorders == 2

(***************************************************************************)
(* Page load: lines 10-22 and 226-228.                                     *)
(***************************************************************************)
\* the indicator's display before the script touches it comes from the
\* page's markup and style sheet
InitialIndicator == FALSE

\* `sess_${Date.now()}_${Math.random()...}` (line 14): a value that differs
\* from one load to the next; now is the number of the load
FreshToken(now) == now

\* mutant of SessionInit: a token is generated on every load
SessionInit_Regenerate(stored, fresh) ==
    [sessionId |-> fresh, storage |-> fresh, isNewSession |-> stored = NoToken]

\* mutant of SessionInit: the generated token is not written to the store
SessionInit_NoPersist(stored, fresh) ==
    IF stored = NoToken
    THEN [sessionId |-> fresh, storage |-> NoToken, isNewSession |-> TRUE]
    ELSE [sessionId |-> stored, storage |-> stored, isNewSession |-> FALSE]

\* sessionId, the store and isNewSession after lines 10-17
SessionInit(stored, fresh) ==
    IF stored = NoToken
    THEN [sessionId |-> fresh, storage |-> fresh, isNewSession |-> TRUE]
    ELSE [sessionId |-> stored, storage |-> stored, isNewSession |-> FALSE]

\* What a load may meet in the store: no failure, getItem throws (line 10),
\* setItem throws (line 15)
NoFault == "none"
StoreFaults == {"read", "write"}

\* The load handler (lines 1-229) on the stored token and a fresh one.  An
\* exception of getItem or setItem is caught nowhere, so it ends the handler
\* where it is thrown: at line 10 sessionId is still unassigned, at line 15
\* it holds the fresh token, and in both cases no line after it has run: no
\* listener is registered (lines 24, 88, 96, 183, 185, 217) and no greeting
\* is appended.  setItem is only called when no token is stored.
Startup(stored, fresh, fault) ==
    LET s == SessionInit(stored, fresh) IN
    CASE fault = "read" ->
            [sessionId |-> NoToken, storage |-> stored, isNewSession |-> FALSE,
             listening |-> FALSE, storeFault |-> "read"]
      [] fault = "write" /\ stored = NoToken ->
            [sessionId |-> fresh, storage |-> stored, isNewSession |-> FALSE,
             listening |-> FALSE, storeFault |-> "write"]
      [] OTHER ->
            [sessionId |-> s.sessionId, storage |-> s.storage,
             isNewSession |-> s.isNewSession,
             listening |-> TRUE, storeFault |-> NoFault]

\* lines 226-228
Welcome(isNew) ==
    IF isNew THEN addMessageToChat(<< >>, Greeting, "ai", 0) ELSE << >>

\* the first load of a fresh installation, the store behaving as fault says;
\* the field may hold text the browser restored, and the browser may or may
\* not offer getUserMedia
FirstLoad(fault) ==
    \E typed \in TypedTexts \cup {Empty}, support \in BOOLEAN :
        LET s == Startup(NoToken, FreshToken(1), fault) IN
        /\ storage = s.storage
        /\ sessionId = s.sessionId
        /\ isNewSession = s.isNewSession
        /\ listening = s.listening
        /\ storeFault = s.storeFault
        /\ loads = 1
        /\ firstToken = s.sessionId
        /\ gestures = 0
        /\ input = typed
        /\ transcript = Welcome(s.isNewSession)
        /\ busy = InitialIndicator
        /\ fileSel = NoFile
        /\ alert = NoAlert
        /\ playing = 0
        /\ ops = << >>
        /\ settled = << >>
        /\ mediaSupport = support
        /\ pendingPerm = 0
        /\ recorders = << >>
        /\ mediaRecorder = 0
        /\ audioChunks = << >>
        /\ isRecording = FALSE

\* the store works
Init == FirstLoad(NoFault)

\* The page is loaded again, the store behaving as fault says: every script
\* variable and the document start afresh, pending requests and recorders are
\* gone, the store is kept.
Reload(fault) ==
    /\ Room
    /\ \E typed \in TypedTexts \cup {Empty} :
        LET s == Startup(storage, FreshToken(loads + 1), fault) IN
        /\ storage' = s.storage
        /\ sessionId' = s.sessionId
        /\ isNewSession' = s.isNewSession
        /\ listening' = s.listening
        /\ storeFault' = s.storeFault
        /\ input' = typed
        /\ transcript' = Welcome(s.isNewSession)
    /\ loads' = loads + 1
    /\ gestures' = gestures + 1
    /\ UNCHANGED <<firstToken, mediaSupport>>
    /\ busy' = InitialIndicator
    /\ fileSel' = NoFile
    /\ alert' = NoAlert
    /\ playing' = 0
    /\ ops' = << >>
    /\ settled' = << >>
    /\ pendingPerm' = 0
    /\ recorders' = << >>
    /\ mediaRecorder' = 0
    /\ audioChunks' = << >>
    /\ isRecording' = FALSE

\* the store works
PageLoad == Reload(NoFault)

(***************************************************************************)
(* Chat: lines 88-127.                                                     *)
(***************************************************************************)
\* the user edits the message field
Type(t) ==
    /\ input' = t
    /\ alert' = NoAlert
    /\ UNCHANGED <<sessVars, gestures, transcript, busy, fileSel, netVars, recVars>>
    /\ UNCHANGED playing

\* mutant of SubmitHandler: the user message is not appended
SubmitHandler_NoEcho(inp, tr, os, bz, from) ==
    LET message == Trim(inp) IN
    IF message = Empty
    THEN [input |-> inp, transcript |-> tr, ops |-> os, busy |-> bz]
    ELSE [input |-> Empty,
          transcript |-> tr,
          ops |-> Append(os, NewOp("chat", message, sessionId, from, Len(tr) + 1)),
          busy |-> TRUE]

\* mutant of SubmitHandler: the field is tested before it is trimmed
SubmitHandler_NoTrim(inp, tr, os, bz, from) ==
    LET message == Trim(inp)
        id == Len(os) + 1
    IN  IF inp = Empty
        THEN [input |-> inp, transcript |-> tr, ops |-> os, busy |-> bz]
        ELSE [input |-> Empty,
              transcript |-> addMessageToChat(tr, message, "user", id),
              ops |-> Append(os, NewOp("chat", message, sessionId, from, Len(tr) + 1)),
              busy |-> TRUE]

\* The submit listener up to its await (lines 96-111), run on the field
\* value inp, transcript tr, operations os and indicator bz; from is 0 for a
\* user gesture and the transcribe operation's id for a dispatched submit.
SubmitHandler(inp, tr, os, bz, from) ==
    LET message == Trim(inp)
        id == Len(os) + 1
    IN  IF message = Empty
        THEN [input |-> inp, transcript |-> tr, ops |-> os, busy |-> bz]
        ELSE [input |-> Empty,
              transcript |-> addMessageToChat(tr, message, "user", id),
              ops |-> Append(os, NewOp("chat", message, sessionId, from, Len(tr) + 1)),
              busy |-> TRUE]

\* the form is submitted: the submit listener runs up to its await
Submit ==
    /\ listening
    /\ Trim(input) = Empty \/ Room
    /\ LET r == SubmitHandler(input, transcript, ops, busy, 0) IN
        /\ input' = r.input
        /\ transcript' = r.transcript
        /\ ops' = r.ops
        /\ busy' = r.busy
    /\ gestures' = IF Trim(input) = Empty THEN gestures ELSE gestures + 1
    /\ alert' = NoAlert
    /\ UNCHANGED <<sessVars, fileSel, settled, recVars>>
    /\ UNCHANGED playing

\* keys the user can press in the message field
Keys == {"Enter", "a"}

\* a key goes down in the message field (lines 88-93): Enter without Shift
\* dispatches submit and is not inserted; any other key is left to the
\* browser, which edits the field (Shift+Enter inserts a line break)
KeyDown(key, shift, t) ==
    IF listening /\ key = "Enter" /\ ~shift THEN Submit ELSE Type(t)

\* mutant of ChatCatch: the error is logged and not shown
ChatCatch_Silent(i, msg) ==
    /\ transcript' = transcript
    /\ busy' = FALSE

\* mutant of ChatCatch: the error's own text is not used
ChatCatch_Generic(i, msg) ==
    /\ transcript' = addMessageToChat(transcript, ErrorText(GenericChatError), "ai", i)
    /\ busy' = FALSE

\* catch and finally of the submit listener (lines 121-126)
ChatCatch(i, msg) ==
    /\ transcript' = addMessageToChat(transcript, ErrorText(msg), "ai", i)
    /\ busy' = FALSE

\* mutant of ChatReply: the indicator counts the operations in flight
ChatReply_Counted(i, response) ==
    /\ transcript' = addMessageToChat(transcript, response, "ai", i)
    /\ busy' = (\E j \in OpIds \ {i} : InFlight(j))

\* lines 118-119, then finally (lines 124-126)
ChatReply(i, response) ==
    /\ transcript' = addMessageToChat(transcript, response, "ai", i)
    /\ busy' = FALSE

\* the awaits of chat i settle (lines 107-118): fetch rejects; or the body is
\* not JSON; or the status is a success and the body holds response; or it
\* is not and the body holds detail, or none
ChatSettles(i) ==
    /\ Awaiting(i, "chat")
    /\ \/ \E e \in NetworkErrors \cup JsonErrors :
            /\ ChatCatch(i, e)
            /\ ops' = Finish(ops, i, "error", e)
       \/ \E r \in ChatResponses :
            /\ ChatReply(i, r)
            /\ ops' = Finish(ops, i, "success", r)
       \/ \E d \in Details :
            /\ ChatCatch(i, OrElse(d, GenericChatError))
            /\ ops' = Finish(ops, i, "status", d)
    /\ settled' = Append(settled, i)
    /\ alert' = NoAlert
    /\ UNCHANGED <<sessVars, gestures, input, fileSel, recVars>>
    /\ UNCHANGED playing

(***************************************************************************)
(* Speech synthesis: lines 149 and 160-180.                                *)
(***************************************************************************)
\* the speaker button of assistant message m is clicked: speakText up to its
\* await (lines 160-167)
SpeakerClick(m) ==
    /\ m \in 1..Len(transcript)
    /\ transcript[m].sender = "ai"
    /\ Room
    /\ busy' = TRUE
    /\ ops' = Append(ops, NewOp("synthesize", transcript[m].text, NoToken, 0, 0))
    /\ gestures' = gestures + 1
    /\ alert' = NoAlert
    /\ UNCHANGED <<sessVars, input, transcript, fileSel, settled, recVars>>
    /\ UNCHANGED playing

\* mutant of SpeakCatch: the indicator is hidden on the success path only
SpeakCatch_NoFinally ==
    /\ alert' = NoAudioAlert
    /\ busy' = busy
    /\ playing' = playing

\* catch and finally of speakText (lines 174-179)
SpeakCatch ==
    /\ alert' = NoAudioAlert
    /\ busy' = FALSE
    /\ playing' = playing

\* mutant of SpeakPlay: the task waits for the audio before its finally
SpeakPlay_Awaited ==
    /\ alert' = NoAlert
    /\ busy' = busy
    /\ playing' = playing + 1

\* lines 171-173, then finally: the audio starts playing and the task does
\* not wait for it
SpeakPlay ==
    /\ alert' = NoAlert
    /\ busy' = FALSE
    /\ playing' = playing + 1

\* the awaits of synthesize i settle (lines 163-171): fetch rejects, the
\* status is not a success or the body is not JSON; or the body holds
\* audio_url
SynthSettles(i) ==
    /\ Awaiting(i, "synthesize")
    /\ \/ /\ SpeakCatch
          /\ ops' = Finish(ops, i, "failed", Empty)
       \/ \E url \in AudioUrls :
            /\ SpeakPlay
            /\ ops' = Finish(ops, i, "success", url)
    /\ settled' = Append(settled, i)
    /\ UNCHANGED <<sessVars, gestures, input, transcript, fileSel, recVars>>

\* an audio that speakText started ends, or fails to play: the script has no
\* handler for either (line 173 keeps neither the promise nor a listener)
AudioEnds ==
    /\ playing > 0
    /\ playing' = playing - 1
    /\ alert' = NoAlert
    /\ UNCHANGED <<sessVars, gestures, uiVars, netVars, recVars>>

(***************************************************************************)
(* Upload: lines 183-214.                                                  *)
(***************************************************************************)
\* the file control changes to f (NoFile: the selection was cancelled): the
\* change listener up to its await (lines 185-197)
FileChange(f) ==
    /\ listening
    /\ f = NoFile \/ Room
    /\ fileSel' = f
    /\ IF f = NoFile
       THEN UNCHANGED <<busy, ops, gestures>>
       ELSE /\ busy' = TRUE
            /\ ops' = Append(ops, NewOp("upload", f, NoToken, 0, 0))
            /\ gestures' = gestures + 1
    /\ alert' = NoAlert
    /\ UNCHANGED <<sessVars, input, transcript, settled, recVars>>
    /\ UNCHANGED playing

\* mutant of UploadEnd: the outcome message is appended twice
UploadEnd_Twice(i, text) ==
    /\ transcript' = addMessageToChat(addMessageToChat(transcript, text, "ai", i), text, "ai", i)
    /\ busy' = FALSE
    /\ fileSel' = NoFile

\* mutant of UploadEnd: the finally does not reset the file control
UploadEnd_KeepFile(i, text) ==
    /\ transcript' = addMessageToChat(transcript, text, "ai", i)
    /\ busy' = FALSE
    /\ fileSel' = fileSel

\* mutant of UploadEnd: the finally does not hide the indicator
UploadEnd_NoRelease(i, text) ==
    /\ transcript' = addMessageToChat(transcript, text, "ai", i)
    /\ busy' = busy
    /\ fileSel' = NoFile

\* an outcome message, then finally (lines 202 or 209, then 210-213)
UploadEnd(i, text) ==
    /\ transcript' = addMessageToChat(transcript, text, "ai", i)
    /\ busy' = FALSE
    /\ fileSel' = NoFile

\* the awaits of upload i settle (lines 194-199): fetch rejects; or the body
\* is not JSON; or the status is a success; or it is not and the body holds
\* detail, or none
UploadSettles(i) ==
    /\ Awaiting(i, "upload")
    /\ \/ \E e \in NetworkErrors \cup JsonErrors :
            /\ UploadEnd(i, ErrorText(e))
            /\ ops' = Finish(ops, i, "error", e)
       \/ /\ UploadEnd(i, UploadedText(ops[i].body))
          /\ ops' = Finish(ops, i, "success", Empty)
       \/ \E d \in Details :
            /\ UploadEnd(i, ErrorText(OrElse(d, GenericUploadError)))
            /\ ops' = Finish(ops, i, "status", d)
    /\ settled' = Append(settled, i)
    /\ alert' = NoAlert
    /\ UNCHANGED <<sessVars, gestures, input, recVars>>
    /\ UNCHANGED playing

(***************************************************************************)
(* Recording: lines 19-59.  A recorder is "recording", then "stopped"     *)
(* (its state is 'inactive' and the task that fires its dataavailable and *)
(* stop events is queued), then "inactive" once that task has run.        *)
(***************************************************************************)
Recorders == 1..Len(recorders)
Capturing == {r \in Recorders : recorders[r] = "recording"}

\* mediaRecorder && mediaRecorder.state !== 'inactive' (line 54)
CanStop == mediaRecorder # 0 /\ recorders[mediaRecorder] = "recording"

\* mutant of stopRecording: the flag is cleared outside the guard
stopRecording_NoGuard ==
    /\ IF CanStop
       THEN recorders' = [recorders EXCEPT ![mediaRecorder] = "stopped"]
       ELSE UNCHANGED recorders
    /\ isRecording' = FALSE
    /\ alert' = NoAlert
    /\ UNCHANGED <<pendingPerm, gestures>>

\* stopRecording (lines 53-59)
stopRecording ==
    /\ IF CanStop
       THEN /\ recorders' = [recorders EXCEPT ![mediaRecorder] = "stopped"]
            /\ isRecording' = FALSE
       ELSE UNCHANGED <<recorders, isRecording>>
    /\ alert' = NoAlert
    /\ UNCHANGED <<pendingPerm, gestures>>

\* startRecording up to its await (lines 32-38)
startRecording ==
    /\ IF mediaSupport
       THEN /\ pendingPerm' = pendingPerm + 1
            /\ gestures' = gestures + 1
            /\ alert' = NoAlert
       ELSE /\ alert' = NoSupportAlert
            /\ UNCHANGED <<pendingPerm, gestures>>
    /\ UNCHANGED <<recorders, isRecording>>

\* the microphone button is clicked (lines 24-30)
MicClick ==
    /\ listening
    /\ isRecording \/ ~mediaSupport \/ Room
    /\ IF isRecording THEN stopRecording ELSE startRecording
    /\ UNCHANGED <<sessVars, uiVars, netVars, mediaSupport, mediaRecorder, audioChunks>>
    /\ UNCHANGED playing

\* getUserMedia resolves with a stream (lines 38-46)
PermissionGranted ==
    /\ pendingPerm > 0
    /\ pendingPerm' = pendingPerm - 1
    /\ recorders' = Append(recorders, "recording")
    /\ mediaRecorder' = Len(recorders) + 1
    /\ isRecording' = TRUE
    /\ alert' = NoAlert
    /\ UNCHANGED <<sessVars, gestures, uiVars, netVars, mediaSupport, audioChunks>>
    /\ UNCHANGED playing

\* mutant of PermissionDenied: the catch asks for the device again
PermissionDenied_Retry ==
    /\ pendingPerm > 0
    /\ pendingPerm' = pendingPerm
    /\ alert' = NoMicAlert
    /\ UNCHANGED <<sessVars, gestures, uiVars, netVars, mediaSupport, recorders,
                   mediaRecorder, audioChunks, isRecording>>
    /\ UNCHANGED playing

\* getUserMedia rejects (lines 47-50)
PermissionDenied ==
    /\ pendingPerm > 0
    /\ pendingPerm' = pendingPerm - 1
    /\ alert' = NoMicAlert
    /\ UNCHANGED <<sessVars, gestures, uiVars, netVars, mediaSupport, recorders,
                   mediaRecorder, audioChunks, isRecording>>
    /\ UNCHANGED playing

\* recorder r stops on its own: its track ended or the device failed
RecorderEnds(r) ==
    /\ r \in Capturing
    /\ recorders' = [recorders EXCEPT ![r] = "stopped"]
    /\ alert' = NoAlert
    /\ UNCHANGED <<sessVars, gestures, uiVars, netVars, mediaSupport, pendingPerm,
                   mediaRecorder, audioChunks, isRecording>>
    /\ UNCHANGED playing

(***************************************************************************)
(* Transcription: lines 40-43 and 61-86.                                   *)
(***************************************************************************)
\* ondataavailable (lines 40-42); the fragment is named after its recorder
Collect(chunks, r) == Append(chunks, r)

\* mutant of RecorderFlushes: line 66 is missing
RecorderFlushes_KeepsChunks(r, hasData) ==
    LET chunks == IF hasData THEN Collect(audioChunks, r) ELSE audioChunks IN
    /\ r \in Recorders
    /\ recorders[r] = "stopped"
    /\ recorders' = [recorders EXCEPT ![r] = "inactive"]
    /\ IF chunks = << >>
       THEN UNCHANGED <<busy, ops>>
       ELSE /\ busy' = TRUE
            /\ ops' = Append(ops, NewOp("transcribe", chunks, NoToken, 0, 0))
    /\ audioChunks' = chunks
    /\ alert' = NoAlert
    /\ UNCHANGED <<sessVars, gestures, input, transcript, fileSel, settled,
                   mediaSupport, pendingPerm, mediaRecorder, isRecording>>
    /\ UNCHANGED playing

\* mutant of RecorderFlushes: line 62 is missing
RecorderFlushes_NoCheck(r, hasData) ==
    LET chunks == IF hasData THEN Collect(audioChunks, r) ELSE audioChunks IN
    /\ r \in Recorders
    /\ recorders[r] = "stopped"
    /\ recorders' = [recorders EXCEPT ![r] = "inactive"]
    /\ busy' = TRUE
    /\ ops' = Append(ops, NewOp("transcribe", chunks, NoToken, 0, 0))
    /\ audioChunks' = << >>
    /\ alert' = NoAlert
    /\ UNCHANGED <<sessVars, gestures, input, transcript, fileSel, settled,
                   mediaSupport, pendingPerm, mediaRecorder, isRecording>>
    /\ UNCHANGED playing

\* The task queued when recorder r stopped runs: it fires dataavailable when
\* the recorder has data to deliver (hasData) and then stop, whose handler
\* is sendAudioForTranscription, here up to its await (lines 61-75).
RecorderFlushes(r, hasData) ==
    LET chunks == IF hasData THEN Collect(audioChunks, r) ELSE audioChunks IN
    /\ r \in Recorders
    /\ recorders[r] = "stopped"
    /\ recorders' = [recorders EXCEPT ![r] = "inactive"]
    /\ IF chunks = << >>
       THEN UNCHANGED <<busy, ops>>
       ELSE /\ busy' = TRUE
            /\ ops' = Append(ops, NewOp("transcribe", chunks, NoToken, 0, 0))
    /\ audioChunks' = << >>
    /\ alert' = NoAlert
    /\ UNCHANGED <<sessVars, gestures, input, transcript, fileSel, settled,
                   mediaSupport, pendingPerm, mediaRecorder, isRecording>>
    /\ UNCHANGED playing

\* mutant of TranscribeCatch: the catch sends the recording once more
TranscribeCatch_Retry(i) ==
    /\ transcript' = addMessageToChat(transcript, TranscribeErrorText, "ai", i)
    /\ busy' = TRUE
    /\ ops' = Append(Finish(ops, i, "failed", Empty),
                     NewOp("transcribe", ops[i].body, NoToken, 0, 0))
    /\ UNCHANGED input

\* mutant of TranscribeCatch: the failure is logged and not shown
TranscribeCatch_Silent(i) ==
    /\ transcript' = transcript
    /\ busy' = FALSE
    /\ ops' = Finish(ops, i, "failed", Empty)
    /\ UNCHANGED input

\* catch and finally of sendAudioForTranscription (lines 80-85)
TranscribeCatch(i) ==
    /\ transcript' = addMessageToChat(transcript, TranscribeErrorText, "ai", i)
    /\ busy' = FALSE
    /\ ops' = Finish(ops, i, "failed", Empty)
    /\ UNCHANGED input

\* mutant of TranscribeChain: text already in the field is kept
TranscribeChain_KeepsField(i, t) ==
    LET r == SubmitHandler(OrElse(input, t), transcript,
                           Finish(ops, i, "success", t), busy, i) IN
    /\ input' = r.input
    /\ transcript' = r.transcript
    /\ ops' = r.ops
    /\ busy' = FALSE

\* lines 78-79, then finally (lines 83-85): the field is set to the
\* transcription and the submit listener runs inside dispatchEvent up to its
\* own await; the finally of this task runs after it
TranscribeChain(i, t) ==
    LET r == SubmitHandler(t, transcript, Finish(ops, i, "success", t), busy, i) IN
    /\ input' = r.input
    /\ transcript' = r.transcript
    /\ ops' = r.ops
    /\ busy' = FALSE

\* the awaits of transcribe i settle (lines 72-77): fetch rejects, the status
\* is not a success or the body is not JSON; or the body holds transcription
TranscribeSettles(i) ==
    /\ Awaiting(i, "transcribe")
    /\ \/ TranscribeCatch(i)
       \/ \E t \in Transcriptions : TranscribeChain(i, t)
    /\ settled' = Append(settled, i)
    /\ alert' = NoAlert
    /\ UNCHANGED <<sessVars, gestures, fileSel, recVars>>
    /\ UNCHANGED playing

(***************************************************************************)
(* The specification.                                                      *)
(***************************************************************************)
Next ==
    \/ PageLoad
    \/ \E t \in TypedTexts : Type(t)
    \/ Submit
    \/ \E key \in Keys, shift \in BOOLEAN, t \in TypedTexts : KeyDown(key, shift, t)
    \/ \E i \in OpIds : ChatSettles(i)
    \/ \E m \in 1..Len(transcript) : SpeakerClick(m)
    \/ \E i \in OpIds : SynthSettles(i)
    \/ AudioEnds
    \/ \E f \in Files \cup {NoFile} : FileChange(f)
    \/ \E i \in OpIds : UploadSettles(i)
    \/ MicClick
    \/ PermissionGranted
    \/ PermissionDenied
    \/ \E r \in Recorders : RecorderEnds(r)
    \/ \E r \in Recorders, hasData \in BOOLEAN : RecorderFlushes(r, hasData)
    \/ \E i \in OpIds : TranscribeSettles(i)

Spec == Init /\ [][Next]_vars

\* every remote call that was issued settles in the end
Settling ==
    /\ WF_vars(\E i \in OpIds : ChatSettles(i))
    /\ WF_vars(\E i \in OpIds : SynthSettles(i))
    /\ WF_vars(\E i \in OpIds : UploadSettles(i))
    /\ WF_vars(\E i \in OpIds : TranscribeSettles(i))

SpecFair == Spec /\ Settling

\* what happens once the page is loaded
AfterLoad ==
    \/ \E t \in TypedTexts : Type(t)
    \/ Submit
    \/ \E key \in Keys, shift \in BOOLEAN, t \in TypedTexts : KeyDown(key, shift, t)
    \/ \E i \in OpIds : ChatSettles(i)
    \/ \E m \in 1..Len(transcript) : SpeakerClick(m)
    \/ \E i \in OpIds : SynthSettles(i)
    \/ AudioEnds
    \/ \E f \in Files \cup {NoFile} : FileChange(f)
    \/ \E i \in OpIds : UploadSettles(i)
    \/ MicClick
    \/ PermissionGranted
    \/ PermissionDenied
    \/ \E r \in Recorders : RecorderEnds(r)
    \/ \E r \in Recorders, hasData \in BOOLEAN : RecorderFlushes(r, hasData)
    \/ \E i \in OpIds : TranscribeSettles(i)

\* stopRecording on its own: called in any state the controller's variables
\* can take, on a page that has issued nothing.  A permission request has
\* just been denied, so the last step raised its notice.
RecorderStates == {"recording", "stopped", "inactive"}

InitStop ==
    \E n \in 0..MaxRecorders, typed \in TypedTexts \cup {Empty} :
      \E recs \in [1..n -> RecorderStates], mr \in 0..n, rec \in BOOLEAN :
        LET s == Startup(NoToken, FreshToken(1), NoFault) IN
        /\ storage = s.storage
        /\ sessionId = s.sessionId
        /\ isNewSession = s.isNewSession
        /\ listening = s.listening
        /\ storeFault = s.storeFault
        /\ loads = 1
        /\ firstToken = s.sessionId
        /\ gestures = 0
        /\ input = typed
        /\ transcript = Welcome(s.isNewSession)
        /\ busy = InitialIndicator
        /\ fileSel = NoFile
        /\ alert = NoMicAlert
        /\ playing = 0
        /\ ops = << >>
        /\ settled = << >>
        /\ mediaSupport = TRUE
        /\ pendingPerm = 0
        /\ recorders = recs
        /\ mediaRecorder = mr
        /\ audioChunks = << >>
        /\ isRecording = rec

\* a call of stopRecording()
StopCall ==
    /\ stopRecording
    /\ UNCHANGED <<sessVars, uiVars, netVars, mediaSupport, mediaRecorder, audioChunks>>
    /\ UNCHANGED playing

NextStop == StopCall

SpecStop == InitStop /\ [][NextStop]_vars

\* the same program in a browser whose store may throw at any load
InitStore == \E fault \in StoreFaults \cup {NoFault} : FirstLoad(fault)

NextStore ==
    \/ \E fault \in StoreFaults \cup {NoFault} : Reload(fault)
    \/ AfterLoad

SpecStore == InitStore /\ [][NextStore]_vars

(***************************************************************************)
(* Properties.                                                             *)
(***************************************************************************)
\* t occurs in s
Contains(s, t) ==
    \E i \in 0..(Len(s) - Len(t)) : SubSeq(s, i + 1, i + Len(t)) = t

Others(i) == OpIds \ {i}
Alone(i) == \A j \in Others(i) : ~InFlight(j)
Chained(i) == ops[i].kind = "chat" /\ ops[i].from # 0
Chats == {i \in OpIds : ops[i].kind = "chat"}
Done(kind) == {i \in OpIds : ops[i].kind = kind /\ ~InFlight(i)}
OpsOf(msgs) == [k \in 1..Len(msgs) |-> msgs[k].op]
Plain(msgs) == [k \in 1..Len(msgs) |-> [sender |-> msgs[k].sender, text |-> msgs[k].text]]
IsGreeting(m) == m.sender = "ai" /\ m.text = Greeting
IsOutcome(m) == m.sender = "ai" /\ m.op # 0
Greetings == Len(SelectSeq(transcript, IsGreeting))
AnswersTo(i) == {k \in 1..Len(transcript) : transcript[k].sender = "ai" /\ transcript[k].op = i}

\* C1: while a transcribe request, or the chat request its success dispatched,
\* is in flight and no other operation is, the busy signal is true.
C1_BusyAcrossChain ==
    \A i \in OpIds :
        (InFlight(i) /\ Alone(i) /\ (ops[i].kind = "transcribe" \/ Chained(i))) => busy

\* C2: the busy signal is false whenever no issued operation is in flight:
\* before the first operation starts and after all of them have settled.
C2_IdleWhenAllSettled == AllSettled => ~busy

C2_Witness ==
    /\ AllSettled
    /\ Len(settled) >= 2
    /\ settled[1] > settled[2]
    /\ ~busy

\* C3: at most one recorder is capturing at any time.
C3_OneCapture == Cardinality(Capturing) <= 1

\* C4: the outcome messages of the transcript name, in order, exactly the
\* settled operations that report one (every chat, every upload, every failed
\* transcribe) in the order they settled; so none is there before its
\* operation has settled, none is doubled and none is missing.
C4_Reports(i) ==
    \/ ops[i].kind \in {"chat", "upload"}
    \/ ops[i].kind = "transcribe" /\ ops[i].out = "failed"

C4_OutcomesInSettleOrder ==
    /\ OpsOf(SelectSeq(transcript, IsOutcome)) = SelectSeq(settled, C4_Reports)
    /\ \A k \in 1..Len(settled) : ~InFlight(settled[k])
    /\ \A i \in OpIds : ~InFlight(i) => \E k \in 1..Len(settled) : settled[k] = i

C4_Witness ==
    /\ Len(settled) >= 2
    /\ settled[1] > settled[2]
    /\ C4_Reports(settled[1])
    /\ C4_Reports(settled[2])
    /\ Len(SelectSeq(transcript, IsOutcome)) = 2

\* C5 as stated: once every operation has settled, the transcript without
\* the greeting holds one message per non-empty submission, one per settled
\* chat and one per settled upload, and nothing else.
C5_LengthAsStated ==
    AllSettled =>
        Len(transcript) - Greetings
            = Cardinality(Chats) + Cardinality(Done("chat")) + Cardinality(Done("upload"))

FailedTranscribes == {i \in Done("transcribe") : ops[i].out = "failed"}

\* C5 amended: ... and one per failed transcribe; a successful transcribe and
\* a synthesize add none.
C5_Length ==
    AllSettled =>
        Len(transcript) - Greetings
            = Cardinality(Chats) + Cardinality(Done("chat")) + Cardinality(Done("upload"))
                + Cardinality(FailedTranscribes)

C5_Witness ==
    /\ AllSettled
    /\ FailedTranscribes # {}
    /\ Done("upload") # {}
    /\ Len(transcript) - Greetings = 2

\* C6: from the moment a chat request is in flight its user message is in the
\* transcript, and it is still there, at the same position, once the request
\* has settled, failed or not.
C6_UserMessageFirst ==
    \A i \in Chats :
        /\ ops[i].upos \in 1..Len(transcript)
        /\ transcript[ops[i].upos] = Message(ops[i].body, "user", i)
        /\ ops[i].body # Empty

C6_Witness ==
    \E i \in Chats :
        /\ ops[i].out \in {"error", "status"}
        /\ ops[i].upos < Len(transcript)
        /\ transcript[ops[i].upos] = Message(Hello, "user", i)

\* the text the claim promises for a settled chat
C7_Promised(o) ==
    CASE o.out = "success" -> o.data
      [] o.out = "status" /\ o.data # Empty -> <<"Error:", SP>> \o o.data
      [] o.out = "status" /\ o.data = Empty -> <<"Error:", SP, "An error occurred">>
      [] o.out = "error" -> <<"Error:", SP>> \o o.data

\* the messages a chat issued on an empty transcript, with nothing else
\* issued, leaves
C7_Scenario(i) ==
    LET said == Plain(SubSeq(transcript, ops[i].upos, Len(transcript))) IN
    (Len(ops) = 1 /\ ops[i].body = Hello /\ ~InFlight(i)) =>
        /\ Len(said) = 2
        /\ said[1] = [sender |-> "user", text |-> <<"Hello">>]
        /\ said[2].sender = "ai"
        /\ (ops[i].out = "success" /\ ops[i].data = Hi) => said[2].text = <<"Hi!">>
        /\ (ops[i].out = "status" /\ ops[i].data = Boom) => Contains(said[2].text, <<"boom">>)

\* C7: a chat in flight has no assistant message; a settled chat has exactly
\* one: the response text on success, the detail (or the generic text) on a
\* non-success status, the error's description on a call that did not
\* complete.  sendChat("Hello") alone leaves [user "Hello", assistant "Hi!"]
\* on {response: "Hi!"} and [user "Hello", assistant containing "boom"] on a
\* non-success status with {detail: "boom"}.
C7_OneAnswer ==
    \A i \in Chats :
        /\ InFlight(i) => AnswersTo(i) = {}
        /\ ~InFlight(i) =>
            /\ Cardinality(AnswersTo(i)) = 1
            /\ \A k \in AnswersTo(i) : transcript[k].text = C7_Promised(ops[i])
        /\ C7_Scenario(i)

C7_Witness ==
    /\ Len(ops) = 1
    /\ ops[1].kind = "chat"
    /\ ops[1].out = "status"
    /\ Plain(SubSeq(transcript, ops[1].upos, Len(transcript)))
        = << [sender |-> "user", text |-> <<"Hello">>],
             [sender |-> "ai", text |-> <<"Error:", SP, "boom">>] >>

\* a submit dispatched by transcribe i on a transcription that trims to empty
C8_BlankDispatch(i) ==
    /\ i \in OpIds
    /\ ops[i].kind = "transcribe"
    /\ InFlight(i)
    /\ i \in 1..Len(ops')
    /\ ops'[i].out = "success"
    /\ Trim(ops'[i].data) = Empty

\* C8: a submit of text that trims to empty appends no message, issues no
\* request and leaves the busy signal and the field as they are; a submit
\* dispatched on such a transcription appends nothing and issues nothing.
C8_EmptySubmitIsNoOp ==
    [][ /\ (Submit /\ Trim(input) = Empty) => UNCHANGED <<transcript, ops, busy, input>>
        /\ \A i \in OpIds :
            C8_BlankDispatch(i) => (transcript' = transcript /\ Len(ops') = Len(ops))
      ]_vars

C8_Witness ==
    \E i \in OpIds :
        /\ ops[i].kind = "transcribe"
        /\ ops[i].out = "success"
        /\ Trim(ops[i].data) = Empty
        /\ Trim(input) = Empty
        /\ input # Empty
        /\ Len(ops) = i

\* C9: on every load the session token is the one the first load created, the
\* store holds it, and every chat request carries it.
C9_OneToken ==
    /\ sessionId = firstToken
    /\ storage = firstToken
    /\ \A i \in Chats : ops[i].session = firstToken

C9_Witness ==
    /\ loads >= 2
    /\ \E i \in Chats : ops[i].session = firstToken

\* C10: the new-session flag is true on the first load and on no other; the
\* transcript of the first load starts with the greeting, holds it once and
\* holds nothing else until an operation is issued; the transcript of a
\* later load never holds a greeting.
C10_GreetedOnce ==
    /\ isNewSession <=> loads = 1
    /\ Greetings = IF loads = 1 THEN 1 ELSE 0
    /\ loads = 1 => IsGreeting(transcript[1])
    /\ ops = << >> => Len(transcript) = Greetings

C10_Witness ==
    /\ loads >= 2
    /\ Len(transcript) >= 2

\* C11: after a load at which getItem or setItem threw, startup has completed
\* (the listeners that make chat, recording and upload usable are
\* registered) and the page holds a session token.
C11_UsableAfterStoreFault ==
    storeFault # NoFault => (listening /\ sessionId # NoToken)

\* operation i settles in this step
C12_Settles(i) ==
    /\ i \in OpIds
    /\ InFlight(i)
    /\ i \in 1..Len(ops')
    /\ ops'[i].pc = "done"

\* C12: the step in which an operation settles, however it ends, leaves the
\* busy signal false; and when every issued call settles in the end, a busy
\* signal that is true becomes false.
C12_Released ==
    /\ [][\A i \in OpIds : C12_Settles(i) => ~busy']_vars
    /\ busy ~> ~busy

C12_Witness ==
    /\ ~busy
    /\ \E i \in OpIds : ops[i].out = "error" /\ ops[i].data \in JsonErrors
    /\ \E i \in OpIds : ops[i].out = "failed"

\* the controller neither records nor holds a capturing recorder
Idle == ~isRecording /\ Capturing = {}

\* a start() finds no capture device support
C13_NoDevice == MicClick /\ ~isRecording /\ ~mediaSupport

\* C13: a start() that finds no device support, or whose permission request
\* is denied, raises one notice, changes nothing in the controller (so a
\* controller that was Idle is Idle), and asks for the device no further:
\* the denied request is gone and a new one is only made by a click.
C13_RefusedStaysIdle ==
    [][ /\ C13_NoDevice =>
            /\ alert' = NoSupportAlert
            /\ pendingPerm' = pendingPerm
        /\ PermissionDenied =>
            /\ alert' = NoMicAlert
            /\ pendingPerm' = pendingPerm - 1
        /\ (C13_NoDevice \/ PermissionDenied) =>
            /\ UNCHANGED <<isRecording, recorders, mediaRecorder, audioChunks>>
            /\ Idle => Idle'
        /\ pendingPerm' > pendingPerm => (MicClick /\ pendingPerm' = pendingPerm + 1)
      ]_vars

C13_Witness ==
    /\ alert = NoMicAlert
    /\ Idle
    /\ pendingPerm = 0
    /\ recorders = << >>
    /\ gestures = 1

\* C14: a call of stop() when no recorder was created, or when the recorder
\* mediaRecorder names is no longer recording, changes nothing: no variable
\* of the page, no recorder (so no stop event and no transcribe request
\* follow), and it raises no notice.
C14_StopWhenIdle ==
    [][ (StopCall /\ ~CanStop) =>
            /\ UNCHANGED <<sessVars, gestures, uiVars, netVars, recVars>>
            /\ alert' = NoAlert
      ]_vars

C14_Witness ==
    /\ alert = NoAlert
    /\ isRecording
    /\ mediaRecorder = 0 \/ recorders[mediaRecorder] = "inactive"
    /\ ops = << >>

\* a click that stops the capture
C15_Stop == MicClick /\ isRecording /\ CanStop

\* the stop event of recorder r with no fragment collected
C15_EmptyFlush(r) == RecorderFlushes(r, FALSE) /\ audioChunks = << >>

\* C15: stop() ends the capture and clears the recording flag, and when the
\* stop event then finds no fragment, no request is issued, the busy signal
\* and the transcript are left as they are, the recorder is inactive and the
\* flag is still clear: a controller with no other capture is Idle.
C15_EmptyCaptureSkipped ==
    [][ /\ C15_Stop =>
            /\ ~isRecording'
            /\ mediaRecorder \notin Capturing'
        /\ \A r \in Recorders :
            C15_EmptyFlush(r) =>
                /\ UNCHANGED <<ops, busy, transcript, input, isRecording, audioChunks>>
                /\ recorders'[r] = "inactive"
                /\ Capturing' = Capturing
                /\ (~isRecording /\ Capturing = {}) => Idle'
      ]_vars

C15_Witness ==
    /\ recorders = <<"inactive">>
    /\ Idle
    /\ ops = << >>
    /\ ~busy
    /\ Len(transcript) = Greetings
    /\ pendingPerm = 0

\* transcribe i fails in this step
C16_Fails(i) ==
    /\ C12_Settles(i)
    /\ ops[i].kind = "transcribe"
    /\ ops'[i].out = "failed"

\* the messages and chat requests that belong to transcribe i
C16_MessagesOf(i) ==
    {k \in 1..Len(transcript) :
        transcript[k].op = i \/ (transcript[k].op \in Chats /\ ops[transcript[k].op].from = i)}

\* C16: the step in which a transcribe request fails appends the assistant
\* message 'Error transcribing audio.' and nothing else, issues no request
\* and leaves the field alone; and a failed transcribe never has more than
\* that one message, nor a chat request, to its name.
C16_FailedTranscribe ==
    /\ [][ \A i \in OpIds :
            C16_Fails(i) =>
                /\ transcript' = Append(transcript, Message(TranscribeErrorText, "ai", i))
                /\ Len(ops') = Len(ops)
                /\ input' = input
         ]_vars
    /\ [](\A i \in FailedTranscribes :
            /\ Cardinality(C16_MessagesOf(i)) = 1
            /\ \A j \in Chats : ops[j].from # i)

C16_Witness ==
    \E i \in FailedTranscribes :
        /\ AllSettled
        /\ Len(ops) > i
        /\ transcript[Len(transcript)] # Message(TranscribeErrorText, "ai", i)
        /\ Cardinality(C16_MessagesOf(i)) = 1

\* synthesize i settles in this step
C17_Settles(i) == C12_Settles(i) /\ ops[i].kind = "synthesize"

\* C17: neither the speaker click nor the settling of its request changes
\* the transcript; a request that fails raises the alert 'Could not play
\* audio.'; a request that succeeds starts the audio and has released the
\* busy signal in that same step, while the audio plays; the end of the
\* audio changes neither the busy signal nor the transcript.
C17_SynthesizeFrame ==
    [][ /\ (\E m \in 1..Len(transcript) : SpeakerClick(m)) => transcript' = transcript
        /\ \A i \in OpIds :
            C17_Settles(i) =>
                /\ transcript' = transcript
                /\ ~busy'
                /\ ops'[i].out = "failed" => (alert' = NoAudioAlert /\ playing' = playing)
                /\ ops'[i].out = "success" => (alert' = NoAlert /\ playing' = playing + 1)
        /\ AudioEnds => UNCHANGED <<busy, transcript>>
      ]_vars

C17_Witness ==
    /\ playing > 0
    /\ ~busy
    /\ AllSettled
    /\ alert = NoAudioAlert
    /\ Len(transcript) = Greetings
    /\ Len(ops) = 2

\* upload i settles in this step
C18_Settles(i) == C12_Settles(i) /\ ops[i].kind = "upload"

\* the text the claim promises for a settled upload o of file o.body
C18_Promised(o, text) ==
    CASE o.out = "success" -> Contains(text, o.body) /\ Head(text) # "Error:"
      [] o.out = "status" /\ o.data # Empty -> text = <<"Error:", SP>> \o o.data
      [] o.out = "status" /\ o.data = Empty -> text = <<"Error:", SP, "Upload failed">>
      [] o.out = "error" -> text = <<"Error:", SP>> \o o.data

\* C18: the step in which an upload settles appends one assistant message
\* and nothing else (a confirmation that names the file on success, the
\* server's detail or 'Upload failed' on a non-success status, the error's
\* description otherwise) and leaves the file control empty; an upload has
\* no message while in flight and one once settled; a change of the file
\* control to no file issues nothing and appends nothing.
C18_UploadOutcome ==
    /\ [][\A i \in OpIds :
            C18_Settles(i) =>
                /\ Len(transcript') = Len(transcript) + 1
                /\ SubSeq(transcript', 1, Len(transcript)) = transcript
                /\ transcript'[Len(transcript')].sender = "ai"
                /\ C18_Promised(ops'[i], transcript'[Len(transcript')].text)
                /\ fileSel' = NoFile
                /\ Len(ops') = Len(ops)
         ]_vars
    /\ [][FileChange(NoFile) => UNCHANGED <<ops, transcript, busy>>]_vars
    /\ [](\A i \in OpIds :
            ops[i].kind = "upload" =>
                Cardinality(AnswersTo(i)) = IF InFlight(i) THEN 0 ELSE 1)

C18_Witness ==
    /\ Len(ops) = 2
    /\ ops[1].kind = "upload" /\ ops[1].out = "success"
    /\ ops[2].kind = "upload" /\ ops[2].out = "status" /\ ops[2].data = Boom
    /\ fileSel = NoFile
    /\ transcript[Len(transcript)].text = <<"Error:", SP, "boom">>
    /\ Contains(transcript[Len(transcript) - 1].text, <<"a.pdf">>)

\* the operation issued in this step
C19_Issued == ops'[Len(ops')]

\* the chat requests dispatched by transcribe i
C19_ChainedTo(i) == {j \in Chats : ops[j].from = i}

\* C19: a step issues at most one remote call, and only a user gesture, the
\* stop event of one recorder (a transcribe call) or the success of a
\* transcribe (its chained chat) issues one; the step in which a call fails
\* issues none; a call that has settled stays settled with the outcome it
\* had.  So a transcribe has at most one chained chat, there are no more
\* transcribe calls than recorders that have stopped, and no more other calls
\* than gestures.
C19_NoRetry ==
    /\ [][ /\ Len(ops') <= Len(ops) + 1
            /\ Len(ops') = Len(ops) + 1 =>
                \/ gestures' = gestures + 1 /\ C19_Issued.from = 0
                \/ /\ C19_Issued.kind = "transcribe"
                   /\ \E r \in Recorders : recorders[r] = "stopped" /\ recorders'[r] = "inactive"
                \/ /\ C19_Issued.kind = "chat"
                   /\ C12_Settles(C19_Issued.from)
                   /\ ops[C19_Issued.from].kind = "transcribe"
                   /\ ops'[C19_Issued.from].out = "success"
            /\ \A i \in OpIds :
                /\ (C12_Settles(i) /\ ops'[i].out # "success") => Len(ops') = Len(ops)
                /\ (~InFlight(i) /\ i \in 1..Len(ops')) => ops'[i] = ops[i]
         ]_vars
    /\ [](/\ \A i \in OpIds : Cardinality(C19_ChainedTo(i)) <= 1
           /\ Cardinality({j \in OpIds : ops[j].kind = "transcribe"})
                <= Cardinality({r \in Recorders : recorders[r] = "inactive"})
           /\ Cardinality({j \in OpIds : ops[j].kind # "transcribe" /\ ops[j].from = 0})
                <= gestures)

C19_Witness ==
    /\ AllSettled
    /\ Len(ops) = 2
    /\ ops[1].kind = "transcribe" /\ ops[1].out = "success"
    /\ ops[2].kind = "chat" /\ ops[2].from = 1 /\ ops[2].out = "error"
    /\ gestures = 1

\* C20: once the recorder that mediaRecorder names is inactive, whether
\* stop() ended it or it ended on its own, the recording flag is clear, so
\* that the next click of the microphone button starts a capture.
C20_IdleAfterCaptureEnds ==
    (mediaRecorder # 0 /\ recorders[mediaRecorder] = "inactive") => ~isRecording

\* operation i settles in this step while another operation stays in flight
C21_SettlesFirst(i) ==
    /\ C12_Settles(i)
    /\ \E j \in Others(i) : InFlight(j) /\ j \in 1..Len(ops') /\ ops'[j].pc = "pending"

\* C21: when an operation settles while another is still in flight, the
\* busy signal is false after the step; and a busy signal that is false only
\* becomes true in a step that issues an operation.
C21_SharedFlag ==
    [][ /\ \A i \in OpIds : C21_SettlesFirst(i) => ~busy'
        /\ (~busy /\ busy') => Len(ops') = Len(ops) + 1
      ]_vars

C21_Witness ==
    /\ Len(ops) = 2
    /\ ops[1].kind = "chat" /\ InFlight(1)
    /\ ops[2].kind = "upload" /\ ~InFlight(2)
    /\ ~busy

\* transcribe i succeeds in this step
C22_Succeeds(i) ==
    /\ C12_Settles(i)
    /\ ops[i].kind = "transcribe"
    /\ ops'[i].out = "success"

\* what the success of transcribe i with transcription t must leave,
\* whatever the field holds: nothing new when t trims to empty, else the
\* user message Trim(t) and a chat request with that message
C22_Chained(i, t) ==
    IF Trim(t) = Empty
    THEN /\ transcript' = transcript
         /\ Len(ops') = Len(ops)
    ELSE /\ Len(ops') = Len(ops) + 1
         /\ ops'[Len(ops')].kind = "chat"
         /\ ops'[Len(ops')].body = Trim(t)
         /\ ops'[Len(ops')].from = i
         /\ ops'[Len(ops')].pc = "pending"
         /\ transcript' = Append(transcript, Message(Trim(t), "user", Len(ops')))

\* C22: the step in which a transcribe request succeeds appends the trimmed
\* transcription as one user message and issues one chat request that
\* carries it, whatever the field held; when the transcription trims to
\* empty it appends nothing and issues nothing.
C22_TranscriptionSubmitted ==
    [][\A i \in OpIds : C22_Succeeds(i) => C22_Chained(i, ops'[i].data)]_vars

C22_Witness ==
    /\ Len(ops) = 2
    /\ ops[1].kind = "transcribe" /\ ops[1].data = PaddedHello
    /\ ops[2].kind = "chat" /\ ops[2].from = 1 /\ ops[2].body = Hello
    /\ transcript[Len(transcript)] = Message(Hello, "user", 2)
    /\ input = Empty

IsUser(m) == m.sender = "user"

\* the chats whose user messages the transcript holds, in transcript order
C23_Submitted == OpsOf(SelectSeq(transcript, IsUser))

\* C23: the user messages of the transcript are those of the chats issued,
\* one each, in the order the chats were issued; and the assistant message
\* that answers a chat comes after the user message of that chat.
C23_SubmissionOrder ==
    /\ \A a, b \in 1..Len(C23_Submitted) : a < b => C23_Submitted[a] < C23_Submitted[b]
    /\ {C23_Submitted[a] : a \in 1..Len(C23_Submitted)} = Chats
    /\ \A i \in Chats :
        \A k \in AnswersTo(i) :
            \E u \in 1..(k - 1) : transcript[u] = Message(ops[i].body, "user", i)

C23_Witness ==
    /\ Len(ops) = 2
    /\ Chats = {1, 2}
    /\ settled = <<2, 1>>
    /\ OpsOf(SubSeq(transcript, Len(transcript) - 3, Len(transcript))) = <<1, 2, 2, 1>>

Transcribes == {i \in OpIds : ops[i].kind = "transcribe"}

\* the fragments in the payload of transcribe i
C24_Payload(i) == {ops[i].body[k] : k \in 1..Len(ops[i].body)}

\* C24: once a transcribe request is issued the fragment buffer is empty,
\* and it is empty in every state between two tasks; a payload holds each
\* of its fragments once, and no fragment is in the payloads of two
\* requests, whether the earlier one failed or not.
C24_FragmentsSentOnce ==
    /\ audioChunks = << >>
    /\ \A i \in Transcribes :
        /\ Cardinality(C24_Payload(i)) = Len(ops[i].body)
        /\ \A j \in Transcribes \ {i} : C24_Payload(i) \cap C24_Payload(j) = {}

C24_Witness ==
    /\ Len(ops) = 2
    /\ ops[1].kind = "transcribe" /\ ops[1].out = "failed" /\ ops[1].body = <<1>>
    /\ ops[2].kind = "transcribe" /\ InFlight(2) /\ ops[2].body = <<2>>

=============================================================================
